---- MODULE Spec2Model ----
(***************************************************************************)
(* MessagesPage (src/src/pages/messages/messages.ts): the chat view        *)
(* component.  The component's fields, the DOM scroller it reads and       *)
(* writes, the remote requests it has in flight and the local message      *)
(* collection it observes are the state; every lifecycle hook, event       *)
(* handler and callback of the component is one action.                    *)
(***************************************************************************)
EXTENDS Integers, Sequences, FiniteSets, TLC

\* ------------------------------------------------------------------ bounds
MaxMessages == 3      \* messages the database ever holds
PageSize    == 1      \* messages per page of the 'messages' publication
MaxBatch    == 3      \* cap on messagesBatchCounter
MaxNow      == 2      \* cap on the clock
TicksPerDay == 2      \* clock ticks per calendar day
MaxInFlight == 2      \* cap on addMessage calls / uploads in flight

ChatIds == {"c1", "c2"}
UserIds == {"u1", "u2"}
Inputs  == {"", " ", "hi"}
Files   == {"f1"}
Urls    == {"url1", "url2"}
\* keyCode == 13 in onInputKeypress
EnterKey == 13
KeyCodes == {EnterKey, 65}
\* the popover was dismissed without a payload
NoParams == "null"

VARIABLES
    \* lifecycle of the component
    phase,                \* "constructed" | "initialized" | "destroyed"
    \* fields of MessagesPage
    autoScroller,         \* "none" | "observing" | "disconnected"
    loadingMessages,      \* undefined (falsy) is FALSE
    message,
    messagesBatchCounter,
    messagesComputation,  \* TRUE once the autorun subscription exists
    messagesDayGroups,    \* last value emitted by the projection, <<>> before
    autoruns,             \* number of autorun subscriptions created so far
    scrollOffset,
    selectedChat,         \* selectedChat._id
    senderId,
    \* the DOM
    scrollTop,
    scrollHeight,
    rendered,             \* ids of the message rows in the message list
    popover,              \* the attachments popover is presented
    \* remote requests and what they delivered
    countCall,            \* "idle" | "sent" | "served" | "done" | "failed"
    countResult,          \* the total the server computed, in flight
    messagesCount,        \* the total captured by the countMessages callback
    scrollListener,       \* "none" | "attached" | "removed"
    subs,                 \* 'messages' subscription requests, in issue order
    calls,                \* 'addMessage' calls in flight
    uploads,              \* picture uploads in flight
    \* the database, the local collection and the clock
    db,
    local,
    now,
    \* the step that produced this state
    op

vars == <<phase, autoScroller, loadingMessages, message, messagesBatchCounter,
          messagesComputation, messagesDayGroups, autoruns, scrollOffset,
          selectedChat, senderId, scrollTop, scrollHeight, rendered, popover, countCall,
          countResult, messagesCount, scrollListener, subs, calls, uploads,
          db, local, now, op>>

fieldVars  == <<loadingMessages, messagesBatchCounter, scrollOffset, subs>>
sendVars   == <<message, calls, uploads, popover>>
domVars    == <<scrollTop, scrollHeight, rendered>>
countVars  == <<countCall, countResult, messagesCount, scrollListener>>
viewVars   == <<messagesComputation, messagesDayGroups, autoruns>>
worldVars  == <<db, local, now>>
constVars  == <<selectedChat, senderId>>

Op(name, n, s) == [name |-> name, n |-> n, s |-> s]

Min(a, b) == IF a < b THEN a ELSE b

RemoveAt(seq, i) == [j \in 1..(Len(seq) - 1) |-> IF j < i THEN seq[j] ELSE seq[j + 1]]

\* ------------------------------------------------------- the publication
\* ids of the messages of a chat, oldest first
ChatMessageIds(chat) == SelectSeq([i \in 1..Len(db) |-> i], LAMBDA i : db[i].chatId = chat)

\* the newest PageSize * page messages of the selected chat
PageIds(page) ==
    LET ids == ChatMessageIds(selectedChat)
        n   == Min(Len(ids), PageSize * page)
    IN  {ids[i] : i \in (Len(ids) - n + 1)..Len(ids)}

\* a message the client's subscriptions deliver: one of another chat (other
\* pages' subscriptions), or one in the largest page requested here
Deliverable(id) ==
    \/ db[id].chatId # selectedChat
    \/ subs # <<>> /\ id \in PageIds(messagesBatchCounter)

\* ------------------------------------------------------ the projection
\* faulty variant: the two outcomes are swapped
OwnershipSwapped(me, sender) == IF me = sender THEN "other" ELSE "mine"

\* this.senderId == message.senderId ? 'mine' : 'other'
Ownership(me, sender) == IF me = sender THEN "mine" ELSE "other"

\* Moment(input) for an object input: the date units the object names, and the
\* current day, at its start, for the date units it does not name
Moment(input, t) ==
    LET day == IF "date" \in DOMAIN input THEN input.date ELSE t \div TicksPerDay
    IN  day * TicksPerDay

\* moment.format('D MMMM Y'): the calendar day of the moment
Format(m) == <<"D MMMM Y", m \div TicksPerDay>>

\* the key _.groupBy files a message under
GroupKey(msg, t) == Format(Moment(msg, t))

\* sort: { createdAt: 1 } (ties in insertion order)
RECURSIVE SortByCreatedAt(_)
SortByCreatedAt(S) ==
    IF S = {} THEN <<>>
    ELSE LET first == CHOOSE m \in S : \A o \in S :
                          \/ m.createdAt < o.createdAt
                          \/ m.createdAt = o.createdAt /\ m.id <= o.id
         IN  <<first>> \o SortByCreatedAt(S \ {first})

\* Messages.find({ chatId }, { sort: { createdAt: 1 } }) on the local collection
Find(coll, chat) == SortByCreatedAt({db[i] : i \in {j \in coll : db[j].chatId = chat}})

\* Object.keys of the grouped dictionary: the keys in order of first insertion
RECURSIVE GroupKeys(_, _)
GroupKeys(msgs, t) ==
    IF msgs = <<>> THEN <<>>
    ELSE LET rest == GroupKeys(SubSeq(msgs, 1, Len(msgs) - 1), t)
             k    == GroupKey(msgs[Len(msgs)], t)
         IN  IF \E i \in 1..Len(rest) : rest[i] = k THEN rest ELSE Append(rest, k)

findMessagesDayGroups(coll, t) ==
    LET found    == Find(coll, selectedChat)
        messages == [i \in 1..Len(found) |->
                        [id |-> found[i].id, chatId |-> found[i].chatId,
                         senderId |-> found[i].senderId,
                         createdAt |-> found[i].createdAt,
                         ownership |-> Ownership(senderId, found[i].senderId)]]
        keys     == GroupKeys(messages, t)
    IN  [i \in 1..Len(keys) |->
            [timestamp |-> keys[i],
             messages  |-> SelectSeq(messages, LAMBDA m : GroupKey(m, t) = keys[i]),
             today     |-> Format(t) = keys[i]]]

\* the messages the view shows, in order
RECURSIVE Flatten(_)
Flatten(groups) ==
    IF groups = <<>> THEN <<>>
    ELSE Flatten(SubSeq(groups, 1, Len(groups) - 1)) \o groups[Len(groups)].messages

\* the ids of the messages the view shows
ViewIds(groups) == {Flatten(groups)[k].id : k \in 1..Len(Flatten(groups))}

\* what the live query emits to the view after the collection became coll
ViewAfter(coll) ==
    IF messagesComputation THEN findMessagesDayGroups(coll, now) ELSE messagesDayGroups

\* ------------------------------------------------------- the pagination
\* faulty variant: the counter is advanced twice
NextBatchCounterSkip(c) == c + 2

\* ++this.messagesBatchCounter
NextBatchCounter(c) == c + 1

\* .filter(() => !this.scroller.scrollTop)
AtTop(pos) == pos = 0

\* faulty variant: the filter on the in-flight flag is dropped
NotLoadingIgnored == TRUE

\* .filter(() => !this.loadingMessages)
NotLoading == ~loadingMessages

\* faulty variant: the listener follows the count instead of being removed for good
ListenerFollowsCount(listener, count, len) ==
    IF listener = "none" THEN listener
    ELSE IF count = len THEN "removed" ELSE "attached"

\* faulty variant: the emission is compared with the total of the moment
ListenerLiveTotal(listener, count, len) ==
    IF listener = "attached" /\ Len(db) = len THEN "removed" ELSE listener

\* autoRemoveScrollListener: the notifier of takeUntil fires, once and for all,
\* on the first emission of Messages.find() whose length is messagesCount
ListenerAfterEmission(listener, count, len) ==
    IF listener = "attached" /\ count = len THEN "removed" ELSE listener

\* faulty variant: the in-flight flag is not raised
subscribeMessagesNoFlag ==
    /\ loadingMessages' = loadingMessages
    /\ scrollOffset' = scrollHeight
    /\ messagesBatchCounter' = messagesBatchCounter + 1
    /\ subs' = Append(subs, [page   |-> messagesBatchCounter + 1,
                             state  |-> "pending",
                             height |-> scrollHeight])

\* a request records the page it asks for and, for reference, the scroll
\* height at the time it was issued
subscribeMessages ==
    /\ loadingMessages' = TRUE
    /\ scrollOffset' = scrollHeight
    /\ messagesBatchCounter' = NextBatchCounter(messagesBatchCounter)
    /\ subs' = Append(subs, [page   |-> NextBatchCounter(messagesBatchCounter),
                             state  |-> "pending",
                             height |-> scrollHeight])

ngOnInit ==
    /\ phase = "constructed"
    /\ phase' = "initialized"
    /\ autoScroller' = "observing"
    /\ subscribeMessages
    /\ countCall' = "sent"
    /\ op' = Op("ngOnInit", 0, "")
    /\ UNCHANGED <<sendVars, domVars, viewVars, worldVars, constVars,
                   countResult, messagesCount, scrollListener>>

\* the server runs the countMessages method
CountServed ==
    /\ countCall = "sent"
    /\ countCall' = "served"
    /\ countResult' = Len(db)
    /\ op' = Op("countServed", 0, "")
    /\ UNCHANGED <<phase, autoScroller, fieldVars, sendVars, domVars, viewVars,
                   worldVars, constVars, messagesCount, scrollListener>>

\* the callback of MeteorObservable.call('countMessages'): the scroll listener
\* is attached, and the notifier sees the collection as it is
CountReply ==
    /\ countCall = "served"
    /\ countCall' = "done"
    /\ messagesCount' = countResult
    /\ scrollListener' = ListenerAfterEmission("attached", countResult, Cardinality(local))
    /\ op' = Op("countReply", 0, "")
    /\ UNCHANGED <<phase, autoScroller, fieldVars, sendVars, domVars, viewVars,
                   worldVars, constVars, countResult>>

\* the countMessages call fails: its callback never runs
CountError ==
    /\ countCall \in {"sent", "served"}
    /\ countCall' = "failed"
    /\ op' = Op("countError", 0, "")
    /\ UNCHANGED <<phase, autoScroller, fieldVars, sendVars, domVars, viewVars,
                   worldVars, constVars, countResult, messagesCount, scrollListener>>

\* a scroll event of the scroller, at position pos
Scroll(pos) ==
    /\ phase = "initialized"
    /\ pos \in 0..scrollHeight
    /\ scrollTop' = pos
    /\ IF scrollListener = "attached" /\ AtTop(pos) /\ NotLoading
       THEN /\ messagesBatchCounter < MaxBatch
            /\ subscribeMessages
       ELSE UNCHANGED fieldVars
    /\ op' = Op("scroll", pos, "")
    /\ UNCHANGED <<phase, autoScroller, sendVars, scrollHeight, rendered, viewVars,
                   worldVars, constVars, countVars>>

\* faulty variant: every callback creates an autorun subscription
AutorunsEveryReady(computation, n) == n + 1

\* if (!this.messagesComputation) this.messagesComputation = this.autorunMessages()
AutorunsAfterReady(computation, n) == IF computation THEN n ELSE n + 1

\* faulty variant: the callback leaves the in-flight flag raised
ReadyFlagKept(i) ==
    /\ i \in 1..Len(subs)
    /\ subs[i].state = "pending"
    /\ PageIds(subs[i].page) \subseteq local
    /\ subs' = [subs EXCEPT ![i].state = "ready"]
    /\ messagesComputation' = TRUE
    /\ autoruns' = AutorunsAfterReady(messagesComputation, autoruns)
    /\ messagesDayGroups' = IF messagesComputation THEN messagesDayGroups
                            ELSE findMessagesDayGroups(local, now)
    /\ loadingMessages' = loadingMessages
    /\ op' = Op("ready", i, "")
    /\ UNCHANGED <<phase, autoScroller, messagesBatchCounter, scrollOffset, sendVars,
                   domVars, worldVars, constVars, countVars>>

\* the callback of MeteorObservable.subscribe('messages', ...) of request i
Ready(i) ==
    /\ i \in 1..Len(subs)
    /\ subs[i].state = "pending"
    /\ PageIds(subs[i].page) \subseteq local
    /\ subs' = [subs EXCEPT ![i].state = "ready"]
    /\ messagesComputation' = TRUE
    /\ autoruns' = AutorunsAfterReady(messagesComputation, autoruns)
    /\ messagesDayGroups' = IF messagesComputation THEN messagesDayGroups
                            ELSE findMessagesDayGroups(local, now)
    /\ loadingMessages' = FALSE
    /\ op' = Op("ready", i, "")
    /\ UNCHANGED <<phase, autoScroller, messagesBatchCounter, scrollOffset, sendVars,
                   domVars, worldVars, constVars, countVars>>

\* the 'messages' subscription of request i fails: the observable errors, the
\* subscriber has no error handler, and the callback never runs
SubError(i) ==
    /\ i \in 1..Len(subs)
    /\ subs[i].state = "pending"
    /\ subs' = [subs EXCEPT ![i].state = "failed"]
    /\ op' = Op("subError", i, "")
    /\ UNCHANGED <<phase, autoScroller, loadingMessages, messagesBatchCounter,
                   scrollOffset, sendVars, domVars, viewVars, worldVars, constVars,
                   countVars>>

\* a message is added to the local collection: the live queries emit
Added(id) ==
    /\ id \in 1..Len(db)
    /\ id \notin local
    /\ Deliverable(id)
    /\ local' = local \cup {id}
    /\ messagesDayGroups' = ViewAfter(local')
    /\ scrollListener' = ListenerAfterEmission(scrollListener, messagesCount,
                                               Cardinality(local'))
    /\ op' = Op("added", id, "")
    /\ UNCHANGED <<phase, autoScroller, fieldVars, sendVars, domVars,
                   messagesComputation, autoruns, db, now, constVars, countCall,
                   countResult,
                   messagesCount>>

\* ---------------------------------------------------------- auto-scroll
\* faulty variant: the saved offset is not applied
ScrollDownTopNoOffset(height, offset) == height

\* this.scroller.scrollTop = this.scroller.scrollHeight - this.scrollOffset
ScrollDownTop(height, offset) == height - offset

\* faulty variant: the in-flight flag is not consulted
scrollDownAlways(height) ==
    /\ scrollTop' = ScrollDownTop(height, scrollOffset)
    /\ scrollOffset' = 0

\* scrollDown, run by the mutation observer with the scroller height high
scrollDown(height) ==
    IF loadingMessages
    THEN UNCHANGED <<scrollTop, scrollOffset>>
    ELSE /\ scrollTop' = ScrollDownTop(height, scrollOffset)
         /\ scrollOffset' = 0

\* the view renders the rows of messagesDayGroups into the message list (a row
\* is the unit of height); the mutation observer, when observing, calls
\* scrollDown
DomInsertion ==
    /\ rendered # ViewIds(messagesDayGroups)
    /\ rendered' = ViewIds(messagesDayGroups)
    /\ scrollHeight' = Cardinality(rendered')
    /\ IF autoScroller = "observing"
       THEN scrollDown(scrollHeight')
       ELSE UNCHANGED <<scrollTop, scrollOffset>>
    /\ op' = Op("domInsertion", 0, "")
    /\ UNCHANGED <<phase, autoScroller, loadingMessages, messagesBatchCounter, subs,
                   sendVars, viewVars, worldVars, constVars, countVars>>

\* faulty variant: the observer is left connected
ngOnDestroyStillObserving ==
    /\ phase = "initialized"
    /\ phase' = "destroyed"
    /\ autoScroller' = autoScroller
    /\ op' = Op("ngOnDestroy", 0, "")
    /\ UNCHANGED <<fieldVars, sendVars, domVars, viewVars, worldVars, constVars,
                   countVars>>

ngOnDestroy ==
    /\ phase = "initialized"
    /\ phase' = "destroyed"
    /\ autoScroller' = "disconnected"
    /\ op' = Op("ngOnDestroy", 0, "")
    /\ UNCHANGED <<fieldVars, sendVars, domVars, viewVars, worldVars, constVars,
                   countVars>>

\* ------------------------------------------------------- the environment
\* a message is inserted into the database
NewMessage(chat, sender) ==
    /\ Len(db) < MaxMessages
    /\ db' = Append(db, [id |-> Len(db) + 1, chatId |-> chat, senderId |-> sender,
                         createdAt |-> now])
    /\ op' = Op("newMessage", Len(db) + 1, "")
    /\ UNCHANGED <<phase, autoScroller, fieldVars, sendVars, domVars, viewVars,
                   local, now, constVars, countVars>>

\* time passes
Tick ==
    /\ now < MaxNow
    /\ now' = now + 1
    /\ op' = Op("tick", 0, "")
    /\ UNCHANGED <<phase, autoScroller, fieldVars, sendVars, domVars, viewVars,
                   db, local, constVars, countVars>>

\* --------------------------------------------------------- send actions
\* faulty variant: the guard on the empty input is dropped
AbortNever(msg) == FALSE

\* if (!this.message) return
Abort(msg) == msg = ""

\* faulty variant: the call is sent without the input's text
TextCallBlank(chat, msg) == [kind |-> "text", chatId |-> chat, content |-> ""]

\* MeteorObservable.call('addMessage', 'text', this.selectedChat._id, this.message)
TextCall(chat, msg) == [kind |-> "text", chatId |-> chat, content |-> msg]

\* faulty variant: the chat id is left out of the call
PictureCallNoChat(chat, url) == [kind |-> "picture", chatId |-> "", content |-> url]

\* MeteorObservable.call('addMessage', 'picture', this.selectedChat._id, picture.url)
PictureCall(chat, url) == [kind |-> "picture", chatId |-> chat, content |-> url]

\* the body of sendTextMessage
SendText ==
    /\ IF Abort(message)
       THEN UNCHANGED calls
       ELSE /\ Len(calls) < MaxInFlight
            /\ calls' = Append(calls, TextCall(selectedChat, message))
    /\ UNCHANGED <<message, uploads, popover>>

\* the user edits the input field (two-way bound to this.message)
Type(s) ==
    /\ phase = "initialized"
    /\ s # message
    /\ message' = s
    /\ op' = Op("type", 0, s)
    /\ UNCHANGED <<phase, autoScroller, fieldVars, calls, uploads, popover, domVars,
                   viewVars, worldVars, constVars, countVars>>

\* the send button
sendTextMessage ==
    /\ phase = "initialized"
    /\ SendText
    /\ op' = Op("sendTextMessage", 0, message)
    /\ UNCHANGED <<phase, autoScroller, fieldVars, domVars, viewVars, worldVars,
                   constVars, countVars>>

onInputKeypress(keyCode) ==
    /\ phase = "initialized"
    /\ IF keyCode = EnterKey THEN SendText ELSE UNCHANGED sendVars
    /\ op' = Op("onInputKeypress", keyCode, message)
    /\ UNCHANGED <<phase, autoScroller, fieldVars, domVars, viewVars, worldVars,
                   constVars, countVars>>

\* call i is acknowledged: the callback of a text call zeroes the input field,
\* a picture call has no callback
AddMessageAck(i) ==
    /\ i \in 1..Len(calls)
    /\ calls' = RemoveAt(calls, i)
    /\ message' = IF calls[i].kind = "text" THEN "" ELSE message
    /\ op' = Op("addMessageAck", i, calls[i].kind)
    /\ UNCHANGED <<phase, autoScroller, fieldVars, uploads, popover, domVars,
                   viewVars, worldVars, constVars, countVars>>

\* call i fails: no callback runs
AddMessageError(i) ==
    /\ i \in 1..Len(calls)
    /\ calls' = RemoveAt(calls, i)
    /\ op' = Op("addMessageError", i, calls[i].kind)
    /\ UNCHANGED <<phase, autoScroller, fieldVars, message, uploads, popover,
                   domVars, viewVars, worldVars, constVars, countVars>>

showAttachments ==
    /\ phase = "initialized"
    /\ ~popover
    /\ popover' = TRUE
    /\ op' = Op("showAttachments", 0, "")
    /\ UNCHANGED <<phase, autoScroller, fieldVars, message, calls, uploads, domVars,
                   viewVars, worldVars, constVars, countVars>>

\* the onDidDismiss callback: params.selectedPicture of a dismissal without
\* payload throws, otherwise sendPictureMessage starts the upload of the file
PopoverDismiss(params) ==
    /\ popover
    /\ popover' = FALSE
    /\ IF params = NoParams
       THEN UNCHANGED uploads
       ELSE /\ Len(uploads) < MaxInFlight
            /\ uploads' = Append(uploads, params)
    /\ op' = Op("popoverDismiss", 0, params)
    /\ UNCHANGED <<phase, autoScroller, fieldVars, message, calls, domVars,
                   viewVars, worldVars, constVars, countVars>>

\* upload i resolves with picture.url = url: the then-callback of
\* sendPictureMessage issues the call
UploadResolve(i, url) ==
    /\ i \in 1..Len(uploads)
    /\ Len(calls) < MaxInFlight
    /\ uploads' = RemoveAt(uploads, i)
    /\ calls' = Append(calls, PictureCall(selectedChat, url))
    /\ op' = Op("uploadResolve", i, url)
    /\ UNCHANGED <<phase, autoScroller, fieldVars, message, popover, domVars,
                   viewVars, worldVars, constVars, countVars>>

\* upload i fails: the then-callback never runs
UploadReject(i) ==
    /\ i \in 1..Len(uploads)
    /\ uploads' = RemoveAt(uploads, i)
    /\ op' = Op("uploadReject", i, "")
    /\ UNCHANGED <<phase, autoScroller, fieldVars, message, calls, popover, domVars,
                   viewVars, worldVars, constVars, countVars>>

\* ------------------------------------------------------- specifications
\* the state after construction, of a page opened on chat c1 by user u1 (c2
\* and u2 stand for any other chat and any other user)
Init ==
    /\ phase = "constructed"
    /\ autoScroller = "none"
    /\ loadingMessages = FALSE
    /\ message = ""
    /\ messagesBatchCounter = 0
    /\ messagesComputation = FALSE
    /\ messagesDayGroups = <<>>
    /\ autoruns = 0
    /\ scrollOffset = 0
    /\ selectedChat = "c1"
    /\ senderId = "u1"
    /\ scrollTop = 0
    /\ scrollHeight = 0
    /\ rendered = {}
    /\ popover = FALSE
    /\ countCall = "idle"
    /\ countResult = 0
    /\ messagesCount = -1
    /\ scrollListener = "none"
    /\ subs = <<>>
    /\ calls = <<>>
    /\ uploads = <<>>
    /\ db = <<>>
    /\ local = {}
    /\ now = 0
    /\ op = Op("constructor", 0, "")

Paging ==
    \/ ngOnInit
    \/ CountServed
    \/ CountReply
    \/ CountError
    \/ \E pos \in 0..MaxMessages : Scroll(pos)
    \/ \E i \in 1..MaxBatch : Ready(i)
    \/ \E i \in 1..MaxBatch : SubError(i)
    \/ \E id \in 1..MaxMessages : Added(id)
    \/ DomInsertion
    \/ ngOnDestroy

Sending ==
    \/ \E s \in Inputs : Type(s)
    \/ sendTextMessage
    \/ \E keyCode \in KeyCodes : onInputKeypress(keyCode)
    \/ \E i \in 1..MaxInFlight : AddMessageAck(i)
    \/ \E i \in 1..MaxInFlight : AddMessageError(i)
    \/ showAttachments
    \/ \E params \in Files \cup {NoParams} : PopoverDismiss(params)
    \/ \E i \in 1..MaxInFlight, url \in Urls : UploadResolve(i, url)
    \/ \E i \in 1..MaxInFlight : UploadReject(i)

World ==
    \/ \E chat \in ChatIds, sender \in UserIds : NewMessage(chat, sender)
    \/ Tick

Next == Paging \/ Sending \/ World

\* every operation of the component and of its environment
Spec == Init /\ [][Next]_vars

\* pagination and auto-scroll: the operations that read or write the paging
\* fields, the scroller, the subscriptions and the local collection (the send
\* actions share no variable with them; who wrote a message and when is read
\* by the projection only)
PagingNext == Paging \/ \E chat \in ChatIds : NewMessage(chat, senderId)

SpecPaging == Init /\ [][PagingNext]_vars

\* the send actions, on an initialized page
SendNext == ngOnInit \/ Sending

SpecSend == Init /\ [][SendNext]_vars

\* the projection, over the collections the first subscription and the
\* arrival of new messages of any chat, sender and day produce
ViewNext ==
    \/ ngOnInit
    \/ \E i \in 1..MaxBatch : Ready(i)
    \/ \E id \in 1..MaxMessages : Added(id)
    \/ World

SpecView == Init /\ [][ViewNext]_vars

\* ------------------------------------------------------------- claims
\* the requests issued by subscribeMessages and not yet answered
Outstanding == {i \in 1..Len(subs) : subs[i].state = "pending"}

\* a scroll event at the top of the scroller produced the next state
ScrollToTop == op'.name = "scroll" /\ op'.n = 0

\* the step issued exactly one request, carrying the next page index
IssuesOneRequest ==
    /\ messagesBatchCounter' = messagesBatchCounter + 1
    /\ subs' = Append(subs, [page |-> messagesBatchCounter + 1, state |-> "pending",
                             height |-> scrollHeight])

\* the step issued no request and left the page counter alone
IssuesNoRequest == subs' = subs /\ messagesBatchCounter' = messagesBatchCounter

\* C1: in every reachable state at most one 'messages' subscription request
\* is outstanding
C1_AtMostOneOutstanding == Cardinality(Outstanding) <= 1

\* C1 witness: a scroll-to-top event hit an attached listener while a later
\* request than the first was outstanding
C1_Witness ==
    /\ op.name = "scroll" /\ op.n = 0
    /\ scrollListener = "attached"
    /\ Len(subs) >= 2
    /\ Cardinality(Outstanding) = 1
    /\ subs[1].state = "ready"

\* C2, as stated: a scroll-to-top event while loadingMessages is true issues
\* no request and leaves the counter; one while loadingMessages is false
\* increments the counter by one and issues one request
C2_Original ==
    [][ScrollToTop => IF loadingMessages THEN IssuesNoRequest ELSE IssuesOneRequest]_vars

\* C2, amended: a scroll-to-top event issues one request, with the counter
\* incremented by one, when loadingMessages is false and the scroll listener
\* is attached; it issues none and leaves the counter when loadingMessages is
\* true or the listener is not attached (not yet, or removed)
C2_ScrollToTop ==
    [][ScrollToTop => IF ~loadingMessages /\ scrollListener = "attached"
                      THEN IssuesOneRequest
                      ELSE IssuesNoRequest]_vars

\* C2 witness: a scroll-to-top event has just issued a request after the first
C2_Witness ==
    /\ op.name = "scroll" /\ op.n = 0
    /\ Len(subs) >= 2
    /\ subs[Len(subs)].state = "pending"
    /\ loadingMessages
    /\ scrollOffset = scrollHeight
    /\ scrollListener = "attached"

\* the local message count equals the total the countMessages callback captured
AllFetched == messagesCount = Cardinality(local)

\* C3: when the local count equals the captured total the scroll listener is
\* removed, and once removed it stays removed and no scroll event issues a
\* request, whatever the local count becomes
C3_ListenerRemovedForGood ==
    /\ [](AllFetched => scrollListener = "removed")
    /\ [][scrollListener = "removed" =>
            /\ scrollListener' = "removed"
            /\ (op'.name = "scroll" => IssuesNoRequest)]_vars

\* C3 witness: a scroll-to-top event with no request in flight, after the
\* listener was removed and the local count moved on from the total
C3_Witness ==
    /\ op.name = "scroll" /\ op.n = 0
    /\ scrollListener = "removed"
    /\ ~loadingMessages
    /\ Cardinality(local) > messagesCount

\* a DOM insertion in the message list produced the next state
Inserted == op'.name = "domInsertion"

\* C4, as stated: on a DOM insertion with loadingMessages false the scroll
\* position becomes scrollHeight - scrollOffset and scrollOffset 0; with
\* loadingMessages true both are unchanged
C4_Original ==
    [][Inserted => IF loadingMessages
                   THEN UNCHANGED <<scrollTop, scrollOffset>>
                   ELSE /\ scrollTop' = scrollHeight' - scrollOffset
                        /\ scrollOffset' = 0]_vars

\* C4, amended: the same while the mutation observer is observing; once it is
\* disconnected by ngOnDestroy an insertion leaves both unchanged
C4_AutoScroll ==
    [][Inserted => IF ~loadingMessages /\ autoScroller = "observing"
                   THEN /\ scrollTop' = scrollHeight' - scrollOffset
                        /\ scrollOffset' = 0
                   ELSE UNCHANGED <<scrollTop, scrollOffset>>]_vars

\* C4 witness: an insertion with no request in flight applied a saved offset
C4_Witness ==
    /\ op.name = "domInsertion"
    /\ autoScroller = "observing"
    /\ ~loadingMessages
    /\ scrollOffset = 0
    /\ scrollTop > 0
    /\ scrollTop < scrollHeight

\* C9: the n-th request carries page index n and the counter never decreases
C9_PageIndexSequence ==
    /\ [](/\ messagesBatchCounter = Len(subs)
          /\ \A i \in 1..Len(subs) : subs[i].page = i)
    /\ [][messagesBatchCounter' >= messagesBatchCounter]_vars

\* C9 witness: a third request was issued
C9_Witness == Len(subs) >= 3 /\ subs[3].page = 3

\* an invocation of sendTextMessage (the send button, or Enter in the input)
\* produced the next state
SendStep ==
    \/ op'.name = "sendTextMessage"
    \/ op'.name = "onInputKeypress" /\ op'.n = EnterKey

\* the step issued exactly one text call with the input as it is, and left
\* the input
IssuesOneTextCall ==
    /\ calls' = Append(calls, [kind |-> "text", chatId |-> selectedChat,
                               content |-> message])
    /\ message' = message

\* the component, not the user, changed the input field
InputWritten == message' # message /\ op'.name # "type"

\* the step is the acknowledgment of a text call and zeroed the input
ClearedByAck == message' = "" /\ op'.name = "addMessageAck" /\ op'.s = "text"

\* C5, as stated: a send with a non-empty input issues exactly one text call
\* with that string, and the input is cleared only by the acknowledgment of
\* that call: no text call sent before the clearing is still unacknowledged
C5_Original ==
    [][/\ SendStep /\ message # "" => IssuesOneTextCall
       /\ InputWritten => /\ ClearedByAck
                          /\ \A i \in 1..Len(calls') : calls'[i].kind # "text"]_vars

\* C5, amended: a send with a non-empty input issues exactly one text call
\* with that string and leaves the input; the component clears the input only
\* in the acknowledgment callback of a text call, this one or an earlier one
C5_SendText ==
    [][/\ SendStep /\ message # "" => IssuesOneTextCall
       /\ InputWritten => ClearedByAck]_vars

\* C5 witness: a send has issued its call and the input still holds the string
C5_Witness ==
    /\ op.name = "sendTextMessage"
    /\ message = "hi"
    /\ calls = <<[kind |-> "text", chatId |-> selectedChat, content |-> "hi"]>>

\* C6: a send with an empty input issues no call and changes no state of the
\* component
C6_EmptySendNoOp ==
    [][SendStep /\ message = "" =>
         UNCHANGED <<phase, autoScroller, loadingMessages, message,
                     messagesBatchCounter, messagesComputation, messagesDayGroups,
                     autoruns, scrollOffset, selectedChat, senderId, scrollTop, scrollHeight,
                     rendered, popover, countCall, countResult, messagesCount,
                     scrollListener, subs, calls, uploads, db, local, now>>]_vars

\* C6 witness: sendTextMessage ran on an empty input while a call was in flight
C6_Witness ==
    /\ op.name = "sendTextMessage" /\ op.s = ""
    /\ message = ""
    /\ Len(calls) = 1

\* the picture calls among the calls in flight
PictureCalls(cs) == {i \in 1..Len(cs) : cs[i].kind = "picture"}

\* C10: a picture call is issued by the resolution of an upload and by nothing
\* else: that step ends one upload and issues one call of kind picture with
\* the selected chat id and the url the upload returned
C10_PictureAfterUpload ==
    [][/\ op'.name = "uploadResolve" =>
            /\ calls' = Append(calls, [kind |-> "picture", chatId |-> selectedChat,
                                       content |-> op'.s])
            /\ Len(uploads') = Len(uploads) - 1
       /\ op'.name # "uploadResolve" =>
            Cardinality(PictureCalls(calls')) <= Cardinality(PictureCalls(calls))]_vars

\* C10 witness: one of two uploads resolved and its call is in flight, the
\* other is still pending
C10_Witness ==
    /\ op.name = "uploadResolve"
    /\ Len(uploads) = 1
    /\ calls = <<[kind |-> "picture", chatId |-> selectedChat, content |-> op.s]>>

\* the messages of the current chat in the local collection
ChatLocal == {i \in local : db[i].chatId = selectedChat}

\* the calendar day a message was created on
DayOf(i) == db[i].createdAt \div TicksPerDay

\* the projection has just run
Projected == messagesComputation /\ op.name \in {"added", "ready"}

\* the ids of the messages of a group, in order
GroupIds(g) == [k \in 1..Len(g.messages) |-> g.messages[k].id]

\* C7: when the messages of the chat span two calendar days, the projection
\* yields exactly two day groups, each labelled with a day and holding the
\* messages of that day by creation time ascending, and a group has today
\* true exactly when its label is the current date
C7_TwoDayGroups ==
    Projected /\ Cardinality({DayOf(i) : i \in ChatLocal}) = 2 =>
        /\ Len(messagesDayGroups) = 2
        /\ \A d \in {DayOf(i) : i \in ChatLocal} :
              \E n \in 1..Len(messagesDayGroups) :
                 LET g == messagesDayGroups[n] IN
                 /\ g.timestamp = Format(d * TicksPerDay)
                 /\ {g.messages[k].id : k \in 1..Len(g.messages)}
                        = {i \in ChatLocal : DayOf(i) = d}
                 /\ \A k \in 1..(Len(g.messages) - 1) :
                        g.messages[k].createdAt <= g.messages[k + 1].createdAt
        /\ \A n \in 1..Len(messagesDayGroups) :
              messagesDayGroups[n].today <=> messagesDayGroups[n].timestamp = Format(now)

\* C8: the projection shows the messages of the current chat, each with
\* ownership mine when its sender is the current user and other otherwise
C8_Ownership ==
    messagesComputation =>
        LET shown == Flatten(messagesDayGroups) IN
        /\ {shown[k].id : k \in 1..Len(shown)} = ChatLocal
        /\ \A k \in 1..Len(shown) :
              /\ shown[k].senderId = senderId => shown[k].ownership = "mine"
              /\ shown[k].senderId # senderId => shown[k].ownership = "other"

\* C8 witness: the projection shows a message of the current user and one of
\* another user, while the collection also holds a message of another chat
C8_Witness ==
    /\ messagesComputation
    /\ \E k \in 1..Len(Flatten(messagesDayGroups)) :
          Flatten(messagesDayGroups)[k].ownership = "mine"
    /\ \E k \in 1..Len(Flatten(messagesDayGroups)) :
          Flatten(messagesDayGroups)[k].ownership = "other"
    /\ local # ChatLocal

\* C11: after ngOnDestroy the observer stays disconnected and an insertion in
\* the message list changes neither the scroll position nor scrollOffset
C11_NoAutoScrollAfterDestroy ==
    [][phase = "destroyed" =>
         /\ phase' = "destroyed"
         /\ autoScroller' = "disconnected"
         /\ (Inserted => UNCHANGED <<scrollTop, scrollOffset>>)]_vars

\* C11 witness: an insertion after ngOnDestroy, with no request in flight,
\* that scrollDown would have answered by moving the scroll position
C11_Witness ==
    /\ op.name = "domInsertion"
    /\ phase = "destroyed"
    /\ ~loadingMessages
    /\ scrollTop # scrollHeight - scrollOffset

\* the step issues a 'messages' subscription request
Requested == Len(subs') > Len(subs)

\* the step inserts, above the rows of the message list, a row of a message
\* older than all of them, after a pagination request was issued
OlderInserted ==
    /\ Inserted
    /\ Len(subs) >= 2
    /\ rendered # {}
    /\ \E new \in rendered' \ rendered : \A row \in rendered : new < row

\* C12, as stated: a request sets scrollOffset to the scroll height of that
\* moment, and the insertion of older messages, observed by the auto-scroller,
\* leaves the scroll position at the new scroll height minus the scroll height
\* captured by the latest request, whether the ready callback ran or not
C12_PositionPreserved ==
    [][/\ Requested => scrollOffset' = scrollHeight
       /\ (OlderInserted /\ autoScroller = "observing") =>
              scrollTop' = scrollHeight' - subs[Len(subs)].height]_vars

\* C12 restricted to the ordering in which the ready callback ran before the
\* insertion
C12_AfterReady ==
    [][/\ Requested => scrollOffset' = scrollHeight
       /\ (OlderInserted /\ autoScroller = "observing" /\ ~loadingMessages) =>
              scrollTop' = scrollHeight' - subs[Len(subs)].height]_vars

C12_AfterReadyWitness ==
    /\ op.name = "domInsertion"
    /\ Len(subs) >= 2
    /\ ~loadingMessages
    /\ autoScroller = "observing"
    /\ scrollTop = scrollHeight - subs[Len(subs)].height
    /\ scrollTop \notin {0, scrollHeight}

\* C13: countMessages is called once, by ngOnInit; the total its callback
\* receives is kept as it is from then on; and every emission of the local
\* collection seen by an attached listener removes the listener exactly when
\* the local count equals that total, whatever the database holds by then
C13_CountSnapshot ==
    [][/\ countCall' # countCall =>
            /\ countCall' # "idle"
            /\ countCall' = "sent" => (op'.name = "ngOnInit" /\ countCall = "idle")
       /\ messagesCount' # messagesCount =>
            /\ op'.name = "countReply"
            /\ messagesCount = -1
            /\ messagesCount' = countResult
       /\ (op'.name = "countReply" \/ (op'.name = "added" /\ scrollListener = "attached")) =>
            scrollListener' = IF Cardinality(local') = messagesCount'
                              THEN "removed" ELSE "attached"]_vars

\* C13 witness: the database grew after the total was fetched, and the
\* emission that brought the local count to the fetched total removed the
\* listener
C13_Witness ==
    /\ op.name = "added"
    /\ countCall = "done"
    /\ scrollListener = "removed"
    /\ Cardinality(local) = messagesCount
    /\ Len(db) > messagesCount

\* the requests issued whose ready callback has not run
Unanswered == {i \in 1..Len(subs) : subs[i].state # "ready"}

\* C14: loadingMessages is true exactly when a request has been issued whose
\* ready callback has not run; it is raised only by a step that issues a
\* request and lowered only by a ready callback
C14_FlagTracksRequests ==
    /\ [](loadingMessages <=> Unanswered # {})
    /\ [][loadingMessages' # loadingMessages =>
            IF loadingMessages'
            THEN Requested /\ op'.name \in {"ngOnInit", "scroll"}
            ELSE op'.name = "ready"]_vars

\* C14 witness: the ready callback of a pagination request lowered the flag
C14_Witness ==
    /\ op.name = "ready"
    /\ op.n >= 2
    /\ ~loadingMessages
    /\ Unanswered = {}

\* the step inserts, below the rows of the message list, rows of messages
\* newer than all of them and no other row: messages that arrived, not
\* messages a pagination request fetched
NewestInserted ==
    /\ Inserted
    /\ rendered # {}
    /\ rendered \subseteq rendered'
    /\ \A new \in rendered' \ rendered : \A row \in rendered : new > row

\* C15, as stated: when messages that arrived are inserted while no request is
\* in flight and the auto-scroller observes, scrollOffset is 0 and the scroll
\* position becomes the scroll height
C15_NewMessageAtBottom ==
    [][(NewestInserted /\ Unanswered = {} /\ autoScroller = "observing") =>
           /\ scrollOffset = 0
           /\ scrollTop' = scrollHeight']_vars

\* the requests whose subscription failed
FailedRequests == {i \in 1..Len(subs) : subs[i].state = "failed"}

\* C16: a request that failed is never answered, and as long as a request is
\* unanswered loadingMessages stays true, no step issues a request (a
\* scroll-to-top event included) and no insertion changes the scroll position
\* or scrollOffset
C16_UnansweredBlocks ==
    [][/\ FailedRequests # {} =>
            /\ op'.name # "ready"
            /\ Unanswered' = Unanswered
            /\ FailedRequests' = FailedRequests
       /\ (Unanswered # {} /\ op'.name # "ready") =>
            /\ loadingMessages /\ loadingMessages'
            /\ ~Requested
            /\ UNCHANGED messagesBatchCounter
            /\ Inserted => UNCHANGED <<scrollTop, scrollOffset>>]_vars

\* C16 witness: after a request failed, a row was inserted under the eyes of
\* the auto-scroller, away from the position scrollDown would have set
C16_Witness ==
    /\ FailedRequests # {}
    /\ op.name = "domInsertion"
    /\ autoScroller = "observing"
    /\ scrollTop # scrollHeight - scrollOffset

\* a scroll-to-top event hit the attached listener after a request failed
C16_ScrollWitness ==
    /\ FailedRequests # {}
    /\ op.name = "scroll" /\ op.n = 0
    /\ scrollListener = "attached"

\* the requests whose ready callback ran
Answered == {i \in 1..Len(subs) : subs[i].state = "ready"}

\* C18: at most one autorun subscription is ever created; it exists exactly
\* when messagesComputation is set, which is never before a request was
\* answered; it is created by the ready callback that runs first, and
\* messagesComputation, once set, stays set
C18_OneComputation ==
    /\ [](/\ autoruns <= 1
          /\ messagesComputation <=> autoruns = 1
          /\ messagesComputation <=> Answered # {})
    /\ [][/\ autoruns' # autoruns => (op'.name = "ready" /\ Answered = {})
          /\ messagesComputation => messagesComputation']_vars

\* C18 witness: the ready callback of a pagination request ran and found the
\* computation of the first callback
C18_Witness ==
    /\ op.name = "ready"
    /\ op.n >= 2
    /\ Cardinality(Answered) >= 2
    /\ messagesComputation
    /\ autoruns = 1

\* ------------------------------------------------ the page left running
\* the page stays open, no call and no subscription fails, and the database
\* does not change once the server has counted the messages
LiveNext ==
    \/ ngOnInit
    \/ CountServed
    \/ CountReply
    \/ \E pos \in 0..MaxMessages : Scroll(pos)
    \/ \E i \in 1..MaxBatch : Ready(i)
    \/ \E id \in 1..MaxMessages : Added(id)
    \/ DomInsertion
    \/ \E chat \in ChatIds : countCall \in {"idle", "sent"} /\ NewMessage(chat, senderId)

\* what a step Added(id) does to the local collection, for a message of the
\* selected chat: the 'messages' subscription delivers it
Delivery(id) ==
    /\ id \in 1..Len(db)
    /\ db[id].chatId = selectedChat
    /\ id \notin local
    /\ Deliverable(id)
    /\ local' = local \cup {id}

\* what a step Ready(i) does to the requests: request i is answered
Answering(i) ==
    /\ i \in 1..Len(subs)
    /\ subs[i].state = "pending"
    /\ PageIds(subs[i].page) \subseteq local
    /\ subs' = [subs EXCEPT ![i].state = "ready"]

\* the page is initialized, the server answers the call and every request,
\* the subscription delivers the messages of the pages requested, the view
\* renders, and the user scrolls to the top again and again; nothing makes
\* another page's subscription deliver the messages of another chat
LiveFairness ==
    /\ WF_vars(ngOnInit)
    /\ WF_vars(CountServed \/ CountReply)
    /\ WF_subs(\E i \in 1..MaxBatch : Answering(i))
    /\ WF_local(\E id \in 1..MaxMessages : Delivery(id))
    /\ WF_vars(DomInsertion)
    /\ WF_vars(Scroll(0))

SpecLive == Init /\ [][LiveNext]_vars /\ LiveFairness

\* the same, with a database that holds messages of the selected chat only
OneChatNext ==
    \/ ngOnInit
    \/ CountServed
    \/ CountReply
    \/ \E pos \in 0..MaxMessages : Scroll(pos)
    \/ \E i \in 1..MaxBatch : Ready(i)
    \/ \E id \in 1..MaxMessages : Added(id)
    \/ DomInsertion
    \/ countCall \in {"idle", "sent"} /\ NewMessage(selectedChat, senderId)

SpecLiveOneChat == Init /\ [][OneChatNext]_vars /\ LiveFairness

\* every message of the selected chat is in the local collection, the scroll
\* listener is removed (so that, by C3, no further request is issued) and no
\* request is unanswered
AllMaterialized ==
    /\ \A i \in 1..Len(db) : db[i].chatId = selectedChat => i \in local
    /\ scrollListener = "removed"
    /\ Unanswered = {}

\* C17, as stated: with the database unchanged after the total is fetched,
\* every request answered and the user scrolling to the top again and again,
\* the page ends, for good, with all messages materialized, the scroll
\* listener removed and no request issued any more
C17_PagingTerminates == <>[]AllMaterialized

\* C17 holds of a database without messages of other chats
C17_OneChatTerminates == <>[](AllMaterialized /\ Cardinality(local) = Len(db))

====
